---- MODULE Spec2Model ----
(***************************************************************************)
(* A model of flair/data.py: the Dictionary interner, Label, Token, Span   *)
(* and Sentence, the span decoder Sentence.get_spans and the tag-scheme    *)
(* converters iob2 and iob_iobes.                                          *)
(*                                                                         *)
(* Strings are sequences: a tag value is a sequence of one-character      *)
(* strings (<<"B","-","P">> is 'B-P'), a Dictionary item is a sequence of  *)
(* Unicode code points and its stored form the sequence of its UTF-8       *)
(* bytes.  Scores are exact multiples of 1/ScoreScale (ScoreScale is 1.0), *)
(* vote weights are in tenths (11 is 1.1).                                 *)
(***************************************************************************)
EXTENDS Integers, Sequences, FiniteSets, TLC

\* ------------------------------------------------------------- bounds
\* longest sentence / tag list drawn
MaxLen == 4
\* longest sentence drawn when the scores and min_score vary
MaxScoredLen == 3
\* the integer that stands for the score 1.0
ScoreScale == 2
\* most items a Dictionary holds before add_item of a new item is cut off
MaxItems == 3
\* most tokens added to a Sentence by add_token
MaxTokens == 3
\* largest start_position and largest pre-set idx a caller passes
MaxStart == 3

VARIABLES
    \* Dictionary, and the last two calls made on it with what they returned
    idx2item, item2idx, d_call, d_prev,
    \* Sentence: its tokens, the last call made on it, and the text it was
    \* constructed from (None for Sentence())
    tokens, s_call, s_text,
    \* Sentence.get_spans: its locals and position
    gs_pc, gs_i, min_score, spans, current_span, tags, previous_tag_value,
    \* Sentence.to_original_text / Span.to_original_text: locals and position
    ot_pc, ot_tokens, ot_k, ot_pos, ot_str,
    \* iob2 / iob_iobes: the Label list passed, the original values, the result
    tg_tags, tg_in, tg_pc, tg_ret

vars == <<idx2item, item2idx, d_call, d_prev, tokens, s_call, s_text,
          gs_pc, gs_i, min_score, spans, current_span, tags, previous_tag_value,
          ot_pc, ot_tokens, ot_k, ot_pos, ot_str,
          tg_tags, tg_in, tg_pc, tg_ret>>

dictVars == <<idx2item, item2idx, d_call, d_prev>>
gsVars == <<gs_pc, gs_i, min_score, spans, current_span, tags, previous_tag_value>>
otVars == <<ot_pc, ot_tokens, ot_k, ot_pos, ot_str>>
sentVars == <<tokens, s_call, s_text>>
tgVars == <<tg_tags, tg_in, tg_pc, tg_ret>>

\* An optional value (an int or a Label that may be None) is a sequence of at
\* most one element: None is the empty one.
None == <<>>
Some(x) == <<x>>
IsNone(o) == o = <<>>
Val(o) == o[1]

\* ------------------------------------------------------------- helpers
Min(a, b) == IF a < b THEN a ELSE b

\* s[a:] and s[:b] of Python, for 0 <= a, b
Drop(s, a) == SubSeq(s, a + 1, Len(s))
Take(s, b) == SubSeq(s, 1, Min(b, Len(s)))

\* all sequences over S of length 0..n
RECURSIVE SeqsUpTo(_, _)
SeqsUpTo(S, n) ==
    IF n = 0 THEN {<<>>}
    ELSE LET shorter == SeqsUpTo(S, n - 1)
         IN shorter \cup {Append(s, x) : s \in {t \in shorter : Len(t) = n - 1}, x \in S}

\* ============================================================ Dictionary
\* '<unk>'
UnkItem == <<60, 117, 110, 107, 62>>
\* The strings passed as items, as code points: '', 'a' (one UTF-8 byte),
\* e-acute (two bytes), e-acute + 'a', the euro sign (three bytes), '<unk>'.
ItemStrings == {<<>>, <<97>>, <<233>>, <<233, 97>>, <<8364>>, UnkItem}

\* str.encode('utf-8') of one character
EncodeChar(c) ==
    IF c < 128 THEN <<c>>
    ELSE IF c < 2048 THEN <<192 + (c \div 64), 128 + (c % 64)>>
    ELSE <<224 + (c \div 4096), 128 + ((c \div 64) % 64), 128 + (c % 64)>>

\* item.encode('utf-8')
RECURSIVE Encode(_)
Encode(s) == IF s = <<>> THEN <<>> ELSE EncodeChar(Head(s)) \o Encode(Tail(s))

\* bytes.decode('UTF-8') of well-formed UTF-8
RECURSIVE Decode(_)
Decode(b) ==
    IF b = <<>> THEN <<>>
    ELSE IF b[1] < 128 THEN <<b[1]>> \o Decode(Drop(b, 1))
    ELSE IF b[1] < 224 THEN <<(b[1] - 192) * 64 + (b[2] - 128)>> \o Decode(Drop(b, 2))
    ELSE <<(b[1] - 224) * 4096 + (b[2] - 128) * 64 + (b[3] - 128)>> \o Decode(Drop(b, 3))

\* len(dictionary)
DictLen == Len(idx2item)

\* a plausible bug: the membership test is dropped, every call appends
AddItemAlwaysAppends(i2i, m, item) ==
    LET b == Encode(item)
        n2 == Append(i2i, b)
        m2 == [k \in (DOMAIN m) \cup {b} |-> IF k = b THEN Len(n2) - 1 ELSE m[k]]
    IN [idx2item |-> n2, item2idx |-> m2, ret |-> m2[b]]

\* a plausible bug: the id is the length after the append, not length - 1
AddItemOffByOne(i2i, m, item) ==
    LET b == Encode(item)
    IN IF b \notin DOMAIN m
       THEN LET n2 == Append(i2i, b)
                m2 == [k \in (DOMAIN m) \cup {b} |-> IF k = b THEN Len(n2) ELSE m[k]]
            IN [idx2item |-> n2, item2idx |-> m2, ret |-> m2[b]]
       ELSE [idx2item |-> i2i, item2idx |-> m, ret |-> m[b]]

\* Dictionary.add_item on the state (i2i: idx2item, m: item2idx): the state
\* after the call and the id returned
AddItemResult(i2i, m, item) ==
    LET b == Encode(item)
    IN IF b \notin DOMAIN m
       THEN LET n2 == Append(i2i, b)
                m2 == [k \in (DOMAIN m) \cup {b} |-> IF k = b THEN Len(n2) - 1 ELSE m[k]]
            IN [idx2item |-> n2, item2idx |-> m2, ret |-> m2[b]]
       ELSE [idx2item |-> i2i, item2idx |-> m, ret |-> m[b]]

\* Dictionary.get_idx_for_item
GetIdxForItemResult(m, item) ==
    LET b == Encode(item) IN IF b \in DOMAIN m THEN m[b] ELSE 0

\* Dictionary.get_item_for_index: list indexing, then decode.  A Python list
\* index i is in range for -len <= i < len, a negative i counting from the end;
\* any other i raises IndexError (raised).
GetItemForIndexResult(i2i, i) ==
    IF 0 <= i /\ i < Len(i2i)
    THEN [raised |-> FALSE, value |-> Decode(i2i[i + 1])]
    ELSE IF i < 0 /\ 0 - i <= Len(i2i)
    THEN [raised |-> FALSE, value |-> Decode(i2i[Len(i2i) + i + 1])]
    ELSE [raised |-> TRUE, value |-> <<>>]

NoCall == [op |-> "none", arg |-> None, ret |-> None]

\* Dictionary(add_unk)
DictInit(add_unk) ==
    LET r == AddItemResult(<<>>, <<>>, UnkItem)
    IN /\ idx2item = IF add_unk THEN r.idx2item ELSE <<>>
       /\ item2idx = IF add_unk THEN r.item2idx ELSE <<>>
       /\ d_call = NoCall
       /\ d_prev = NoCall

add_item(item) ==
    LET r == AddItemResult(idx2item, item2idx, item)
    IN /\ Len(r.idx2item) <= MaxItems
       /\ idx2item' = r.idx2item
       /\ item2idx' = r.item2idx
       /\ d_call' = [op |-> "add_item", arg |-> item, ret |-> r.ret]
       /\ d_prev' = d_call
       /\ UNCHANGED <<sentVars, gsVars, otVars, tgVars>>

get_idx_for_item(item) ==
    /\ d_call' = [op |-> "get_idx_for_item", arg |-> item,
                  ret |-> GetIdxForItemResult(item2idx, item)]
    /\ d_prev' = d_call
    /\ UNCHANGED <<idx2item, item2idx, sentVars, gsVars, otVars, tgVars>>

get_item_for_index(i) ==
    /\ d_call' = [op |-> "get_item_for_index", arg |-> i,
                  ret |-> GetItemForIndexResult(idx2item, i)]
    /\ d_prev' = d_call
    /\ UNCHANGED <<idx2item, item2idx, sentVars, gsVars, otVars, tgVars>>

\* the integers passed to get_item_for_index
IndexArgs == (0 - MaxItems - 1) .. (MaxItems + 1)

\* =================================================== Label, Token, Sentence
\* a plausible bug: an out-of-range score is clamped to the nearer bound
LabelScoreClamps(score) == IF score < 0 THEN 0 ELSE IF score > ScoreScale THEN ScoreScale ELSE score

\* Label.score's setter: a score outside [0.0, 1.0] is replaced by 1.0
LabelScore(score) == IF 0 <= score /\ score <= ScoreScale THEN score ELSE ScoreScale

\* Label(value, score)
Label(value, score) == [value |-> value, score |-> LabelScore(score)]

\* Token(text, idx, start_position=...), then any add_tag: tag is the Label
\* stored for the one tag type the model follows, None when the token has none.
\* idx and start_position are optional ints.
Token(text, idx, start_position, tag) ==
    [text |-> text, idx |-> idx, whitespace_after |-> TRUE,
     start_pos |-> start_position,
     end_pos |-> IF ~IsNone(start_position)
                 THEN Some(Val(start_position) + Len(text)) ELSE None,
     tag |-> tag]

\* Token.get_tag
get_tag(token) == IF ~IsNone(token.tag) THEN Val(token.tag) ELSE Label(<<>>, ScoreScale)

\* Sentence.add_token: append, then set idx if not set
AddTokenResult(toks, token) ==
    Append(toks, [token EXCEPT !.idx = IF IsNone(token.idx) THEN Some(Len(toks) + 1) ELSE token.idx])

\* the Sentence made by add_token of tokens carrying the optional labels ls
RECURSIVE SentenceOf(_)
SentenceOf(ls) ==
    IF ls = <<>> THEN <<>>
    ELSE AddTokenResult(SentenceOf(SubSeq(ls, 1, Len(ls) - 1)),
                        Token(<<"a">>, None, None, ls[Len(ls)]))

\* ============================================================ get_spans
O == <<"O">>
Prefixes == {<<"B", "-">>, <<"I", "-">>, <<"O", "-">>, <<"E", "-">>, <<"S", "-">>}

\* get_spans lines 372-381: the tag value of a token as the loop uses it
TagValue(token) ==
    LET v0 == get_tag(token).value
        v1 == IF v0 = <<>> \/ v0 = O THEN <<"O", "-">> ELSE v0
    IN IF Take(v1, 2) \notin Prefixes THEN <<"S", "-">> \o v1 ELSE v1

\* a plausible bug: only the bare 'O-' is outside a span
InSpanUnlessBareO(tag_value) == tag_value # <<"O", "-">>

\* lines 384-386
InSpan(tag_value) == Take(tag_value, 2) # <<"O", "-">>

\* a plausible bug: the single-to-single type change no longer forces a boundary
StartsNewSpanNoOverride(prev, tag_value) ==
    Take(tag_value, 2) \in {<<"B", "-">>, <<"S", "-">>}

\* lines 389-394
StartsNewSpan(prev, tag_value) ==
    \/ Take(tag_value, 2) \in {<<"B", "-">>, <<"S", "-">>}
    \/ /\ Take(prev, 2) = <<"S", "-">>
       /\ Drop(prev, 2) # Drop(tag_value, 2)
       /\ InSpan(tag_value)

\* tags[key] += weight on the insertion-ordered defaultdict
AddVote(votes, key, weight) ==
    IF \E j \in 1..Len(votes) : votes[j].key = key
    THEN [j \in 1..Len(votes) |->
            IF votes[j].key = key THEN [votes[j] EXCEPT !.w = @ + weight] ELSE votes[j]]
    ELSE Append(votes, [key |-> key, w |-> weight])

\* a plausible bug: among the keys of greatest weight the last one is taken
BestTagLast(votes) ==
    LET j == CHOOSE j \in 1..Len(votes) :
                /\ \A k \in 1..Len(votes) : votes[k].w <= votes[j].w
                /\ \A k \in (j + 1)..Len(votes) : votes[k].w < votes[j].w
    IN votes[j].key

\* sorted(tags.items(), key=weight, reverse=True)[0][0]: the sort is stable,
\* so the first key holding the greatest weight
BestTag(votes) ==
    LET j == CHOOSE j \in 1..Len(votes) :
                /\ \A k \in 1..Len(votes) : votes[k].w <= votes[j].w
                /\ \A k \in 1..(j - 1) : votes[k].w < votes[j].w
    IN votes[j].key

RECURSIVE SumScores(_, _)
SumScores(toks, span) ==
    IF span = <<>> THEN 0
    ELSE get_tag(toks[Head(span)]).score + SumScores(toks, Tail(span))

\* a plausible bug: the score test is >= instead of >
ScoreAcceptedOrEqual(num, den, ms) == num >= ms * den

\* span_score > min_score, for span_score = num / den
ScoreAccepted(num, den, ms) == num > ms * den

\* lines 397-404 and 417-424: close the pending span (token positions,
\* 1-based); the Span is appended when its score passes
CloseSpan(toks, sp, span, votes, ms) ==
    LET num == SumScores(toks, span)
        den == Len(span)
    IN IF ScoreAccepted(num, den, ms)
       THEN Append(sp, [tokens |-> span, tag |-> BestTag(votes),
                        score |-> [num |-> num, den |-> den]])
       ELSE sp

\* one iteration of the for loop (lines 370-414) on token i of toks, from the
\* locals st = [spans, current_span, tags, previous_tag_value]
GsToken(toks, st, i, ms) ==
    LET tag_value == TagValue(toks[i])
        in_span == InSpan(tag_value)
        starts_new_span == StartsNewSpan(st.previous_tag_value, tag_value)
        closes == (starts_new_span \/ ~in_span) /\ Len(st.current_span) > 0
        sp1 == IF closes
               THEN CloseSpan(toks, st.spans, st.current_span, st.tags, ms)
               ELSE st.spans
        cur1 == IF closes THEN <<>> ELSE st.current_span
        votes1 == IF closes THEN <<>> ELSE st.tags
    IN [spans |-> sp1,
        current_span |-> IF in_span THEN Append(cur1, i) ELSE cur1,
        tags |-> IF in_span
                 THEN AddVote(votes1, Drop(tag_value, 2),
                              IF starts_new_span THEN 11 ELSE 10)
                 ELSE votes1,
        previous_tag_value |-> tag_value]

\* a plausible bug: the span pending after the last token is not flushed
GsFlushDropsPending(toks, st, ms) == st.spans

\* lines 416-426: the flush after the last token, and the list returned
GsFlush(toks, st, ms) ==
    IF Len(st.current_span) > 0
    THEN CloseSpan(toks, st.spans, st.current_span, st.tags, ms)
    ELSE st.spans

\* lines 363-369
GsStart == [spans |-> <<>>, current_span |-> <<>>, tags |-> <<>>,
            previous_tag_value |-> O]

\* get_spans as a function of the sentence and min_score: the loop from
\* token i on, then the flush
RECURSIVE GsFrom(_, _, _, _)
GsFrom(toks, st, i, ms) ==
    IF i > Len(toks) THEN GsFlush(toks, st, ms)
    ELSE GsFrom(toks, GsToken(toks, st, i, ms), i + 1, ms)

GetSpansResult(toks, ms) == GsFrom(toks, GsStart, 1, ms)

GsLocals == [spans |-> spans, current_span |-> current_span, tags |-> tags,
             previous_tag_value |-> previous_tag_value]

\* min_score = -1, the default
DefaultMinScore == 0 - ScoreScale

get_spans_call(ms) ==
    /\ gs_pc = "idle"
    /\ gs_pc' = "loop"
    /\ gs_i' = 1
    /\ min_score' = ms
    /\ spans' = GsStart.spans
    /\ current_span' = GsStart.current_span
    /\ tags' = GsStart.tags
    /\ previous_tag_value' = GsStart.previous_tag_value
    /\ UNCHANGED <<dictVars, sentVars, otVars, tgVars>>

get_spans_token ==
    /\ gs_pc = "loop"
    /\ gs_i <= Len(tokens)
    /\ LET st == GsToken(tokens, GsLocals, gs_i, min_score)
       IN /\ spans' = st.spans
          /\ current_span' = st.current_span
          /\ tags' = st.tags
          /\ previous_tag_value' = st.previous_tag_value
    /\ gs_i' = gs_i + 1
    /\ UNCHANGED <<gs_pc, min_score, dictVars, sentVars, otVars, tgVars>>

get_spans_return ==
    /\ gs_pc = "loop"
    /\ gs_i > Len(tokens)
    /\ spans' = GsFlush(tokens, GsLocals, min_score)
    /\ gs_pc' = "done"
    /\ UNCHANGED <<gs_i, min_score, current_span, tags, previous_tag_value,
                   dictVars, sentVars, otVars, tgVars>>

\* ------------------------------------------------ states outside a call
DictIdle == idx2item = <<>> /\ item2idx = <<>> /\ d_call = NoCall /\ d_prev = NoCall

\* Sentence(): no text, no tokens
SentIdle == tokens = <<>> /\ s_call = NoCall /\ s_text = None

GsIdle ==
    /\ gs_pc = "idle" /\ gs_i = 0 /\ min_score = DefaultMinScore
    /\ spans = <<>> /\ current_span = <<>> /\ tags = <<>>
    /\ previous_tag_value = O

OtIdle == ot_pc = "idle" /\ ot_tokens = <<>> /\ ot_k = 0 /\ ot_pos = None /\ ot_str = <<>>

TgIdle == tg_tags = <<>> /\ tg_in = <<>> /\ tg_pc = "idle" /\ tg_ret = None

\* ------------------------------------------- specification: get_spans
PER == <<"P">>
LOC == <<"L">>
TagOf(prefix, suffix) == <<prefix, "-">> \o suffix

\* tag values of the sentences decoded: BIOES tags of two types, 'O', a
\* value with no BIOES prefix ('P') and the empty value
SpanTagValues ==
    {O, <<>>, PER, TagOf("E", PER)}
    \cup {TagOf(p, x) : p \in {"B", "I", "S"}, x \in {PER, LOC}}

SpanLabels == {Some(Label(v, ScoreScale)) : v \in SpanTagValues} \cup {None}

InitSpans ==
    /\ tokens \in {SentenceOf(ls) : ls \in SeqsUpTo(SpanLabels, MaxLen)}
    /\ s_call = NoCall /\ s_text = None
    /\ DictIdle /\ GsIdle /\ OtIdle /\ TgIdle

NextSpans ==
    \/ get_spans_call(DefaultMinScore)
    \/ get_spans_token
    \/ get_spans_return

SpecSpans == InitSpans /\ [][NextSpans]_vars

\* ------------------------------------------------------ claims C1, C2
\* the raw tag value of token i, and its prefix and suffix
RawTag(i) == get_tag(tokens[i]).value
HasPrefix(v, p) == Take(v, 2) = <<p, "-">>
Suffix(v) == Drop(v, 2)

\* the sentence's tags are a well-formed IOB2 sequence
WellFormedIOB2 ==
    \A i \in 1..Len(tokens) :
        /\ ~IsNone(tokens[i].tag)
        /\ \/ RawTag(i) = O
           \/ HasPrefix(RawTag(i), "B")
           \/ /\ HasPrefix(RawTag(i), "I")
              /\ i > 1
              /\ HasPrefix(RawTag(i - 1), "B") \/ HasPrefix(RawTag(i - 1), "I")
              /\ Suffix(RawTag(i - 1)) = Suffix(RawTag(i))

BPositions == {i \in 1..Len(tokens) : HasPrefix(RawTag(i), "B")}
KthB(k) == CHOOSE i \in BPositions : Cardinality({j \in BPositions : j < i}) = k - 1
\* the last token of the maximal run of I-x tokens directly after the B-x token i
RunEnd(i) ==
    CHOOSE j \in i..Len(tokens) :
        /\ \A k \in (i + 1)..j :
              HasPrefix(RawTag(k), "I") /\ Suffix(RawTag(k)) = Suffix(RawTag(i))
        /\ j < Len(tokens) =>
              ~(HasPrefix(RawTag(j + 1), "I") /\ Suffix(RawTag(j + 1)) = Suffix(RawTag(i)))
Range(a, b) == [k \in 1..(b - a + 1) |-> a + k - 1]

\* C1: on a well-formed IOB2 sentence get_spans with the default min_score
\* returns exactly one span per B- tag, in sentence order: the B-x token and
\* the maximal run of I-x tokens directly after it, typed x.
C1_Iob2SpansExact ==
    (gs_pc = "done" /\ min_score = DefaultMinScore /\ WellFormedIOB2) =>
        /\ Len(spans) = Cardinality(BPositions)
        /\ \A k \in 1..Len(spans) :
              /\ spans[k].tokens = Range(KthB(k), RunEnd(KthB(k)))
              /\ spans[k].tag = Suffix(RawTag(KthB(k)))

\* [B-PER, I-PER, O, B-LOC] decoded: PER over tokens 1-2, LOC over token 4
\* (positions counted from 1)
C1_Witness ==
    /\ gs_pc = "done"
    /\ Len(tokens) = 4
    /\ [i \in 1..4 |-> RawTag(i)] =
          <<TagOf("B", PER), TagOf("I", PER), O, TagOf("B", LOC)>>
    /\ Len(spans) = 2
    /\ spans[1].tokens = <<1, 2>> /\ spans[1].tag = PER
    /\ spans[2].tokens = <<4>> /\ spans[2].tag = LOC

\* the boundary rule as the claim C2 states it, for the token with tag value v
\* after a token with tag value prev (both as the loop reads them)
BoundaryRule(prev, v) ==
    \/ HasPrefix(v, "B") \/ HasPrefix(v, "S")
    \/ /\ ~HasPrefix(v, "O")
       /\ HasPrefix(prev, "S")
       /\ Suffix(prev) # Suffix(v)

\* C2: a token closes the pending span and opens a new one exactly when its
\* prefix is B- or S-, or it is in-span and the previous token's prefix was S-
\* with a different suffix; any other in-span token joins the pending span
\* without a boundary.  So [S-PER, S-LOC] gives 2 spans.
C2_BoundaryExactly ==
    [][(gs_pc = "loop" /\ gs_i <= Len(tokens) /\ gs_i' = gs_i + 1) =>
        LET v == TagValue(tokens[gs_i])
            rule == BoundaryRule(previous_tag_value, v)
            closed == /\ current_span' = <<gs_i>>
                      /\ Len(spans') = Len(spans) + 1
                      /\ spans'[Len(spans')].tokens = current_span
        IN /\ current_span # <<>> => (rule <=> closed)
           /\ (~rule /\ ~HasPrefix(v, "O")) =>
                 current_span' = Append(current_span, gs_i) /\ spans' = spans
           /\ rule => current_span' = <<gs_i>> /\ tags' = <<[key |-> Suffix(v), w |-> 11]>>
      ]_vars

\* an I- token directly after an S- token of another type has started its own
\* span, and [S-PER, S-LOC] was decoded to two spans
C2_Witness ==
    \/ /\ gs_pc = "loop" /\ gs_i = 3 /\ Len(tokens) >= 2
       /\ RawTag(1) = TagOf("S", PER) /\ RawTag(2) = TagOf("I", LOC)
       /\ current_span = <<2>> /\ Len(spans) = 1 /\ spans[1].tokens = <<1>>
    \/ /\ gs_pc = "done" /\ Len(tokens) = 2
       /\ RawTag(1) = TagOf("S", PER) /\ RawTag(2) = TagOf("S", LOC)
       /\ Len(spans) = 2

\* ======================================================= iob2, iob_iobes
\* str.split('-')
RECURSIVE Split(_)
Split(v) ==
    IF \A j \in 1..Len(v) : v[j] # "-" THEN <<v>>
    ELSE LET d == CHOOSE j \in 1..Len(v) :
                     v[j] = "-" /\ \A k \in 1..(j - 1) : v[k] # "-"
         IN <<SubSeq(v, 1, d - 1)>> \o Split(Drop(v, d))

\* str.replace(old, new) for a two-character old: every occurrence, left to right
RECURSIVE Replace(_, _, _)
Replace(v, old, new) ==
    IF Len(v) < 2 THEN v
    ELSE IF Take(v, 2) = old THEN new \o Replace(Drop(v, 2), old, new)
    ELSE <<v[1]>> \o Replace(Drop(v, 1), old, new)

\* a plausible bug: an I- tag after a tag of another type is left as it is
Iob2TagKeepsTypeChange(tgs, i) ==
    LET v == tgs[i]
        split == Split(v)
    IN IF v = O THEN [ok |-> TRUE, tags |-> tgs]
       ELSE IF Len(split) # 2 \/ split[1] \notin {<<"I">>, <<"B">>}
       THEN [ok |-> FALSE, tags |-> tgs]
       ELSE IF split[1] = <<"B">> THEN [ok |-> TRUE, tags |-> tgs]
       ELSE IF i = 1 \/ tgs[i - 1] = O
       THEN [ok |-> TRUE, tags |-> [tgs EXCEPT ![i] = <<"B">> \o Drop(v, 1)]]
       ELSE [ok |-> TRUE, tags |-> tgs]

\* a plausible bug: the test for the first position is lost, and an I- tag
\* there is left as it is
Iob2TagFirstKept(tgs, i) ==
    LET v == tgs[i]
        split == Split(v)
    IN IF v = O THEN [ok |-> TRUE, tags |-> tgs]
       ELSE IF Len(split) # 2 \/ split[1] \notin {<<"I">>, <<"B">>}
       THEN [ok |-> FALSE, tags |-> tgs]
       ELSE IF split[1] = <<"B">> \/ i = 1 THEN [ok |-> TRUE, tags |-> tgs]
       ELSE IF tgs[i - 1] = O
       THEN [ok |-> TRUE, tags |-> [tgs EXCEPT ![i] = <<"B">> \o Drop(v, 1)]]
       ELSE IF Drop(tgs[i - 1], 1) = Drop(v, 1) THEN [ok |-> TRUE, tags |-> tgs]
       ELSE [ok |-> TRUE, tags |-> [tgs EXCEPT ![i] = <<"B">> \o Drop(v, 1)]]

\* one iteration of iob2's loop (lines 832-845) on the tag at position i
\* (from 1): ok is FALSE where the code returns False
Iob2Tag(tgs, i) ==
    LET v == tgs[i]
        split == Split(v)
    IN IF v = O THEN [ok |-> TRUE, tags |-> tgs]
       ELSE IF Len(split) # 2 \/ split[1] \notin {<<"I">>, <<"B">>}
       THEN [ok |-> FALSE, tags |-> tgs]
       ELSE IF split[1] = <<"B">> THEN [ok |-> TRUE, tags |-> tgs]
       ELSE IF i = 1 \/ tgs[i - 1] = O
       THEN [ok |-> TRUE, tags |-> [tgs EXCEPT ![i] = <<"B">> \o Drop(v, 1)]]
       ELSE IF Drop(tgs[i - 1], 1) = Drop(v, 1) THEN [ok |-> TRUE, tags |-> tgs]
       ELSE [ok |-> TRUE, tags |-> [tgs EXCEPT ![i] = <<"B">> \o Drop(v, 1)]]

\* iob2 from position i on: the value returned and the tags as the call
\* leaves them (it returns at the first malformed tag)
RECURSIVE Iob2From(_, _)
Iob2From(tgs, i) ==
    IF i > Len(tgs) THEN [ok |-> TRUE, tags |-> tgs]
    ELSE LET r == Iob2Tag(tgs, i)
         IN IF r.ok THEN Iob2From(r.tags, i + 1) ELSE r

Iob2Result(tgs) == Iob2From(tgs, 1)

\* a plausible bug: the look-ahead also requires the next tag's type to match
IobIobesTagSameType(tgs, i) ==
    LET v == tgs[i]
        first == Split(v)[1]
        nextI == /\ i + 1 <= Len(tgs) /\ Split(tgs[i + 1])[1] = <<"I">>
                 /\ Drop(tgs[i + 1], 1) = Drop(v, 1)
    IN IF v = O THEN [raised |-> FALSE, value |-> v]
       ELSE IF first = <<"B">>
       THEN [raised |-> FALSE,
             value |-> IF nextI THEN v ELSE Replace(v, <<"B", "-">>, <<"S", "-">>)]
       ELSE IF first = <<"I">>
       THEN [raised |-> FALSE,
             value |-> IF nextI THEN v ELSE Replace(v, <<"I", "-">>, <<"E", "-">>)]
       ELSE [raised |-> TRUE, value |-> <<>>]

\* a plausible bug: the last I- tag of an entity is rewritten to S-, not E-
IobIobesTagEndsSingle(tgs, i) ==
    LET v == tgs[i]
        first == Split(v)[1]
        nextI == i + 1 <= Len(tgs) /\ Split(tgs[i + 1])[1] = <<"I">>
    IN IF v = O THEN [raised |-> FALSE, value |-> v]
       ELSE IF first = <<"B">>
       THEN [raised |-> FALSE,
             value |-> IF nextI THEN v ELSE Replace(v, <<"B", "-">>, <<"S", "-">>)]
       ELSE IF first = <<"I">>
       THEN [raised |-> FALSE,
             value |-> IF nextI THEN v ELSE Replace(v, <<"I", "-">>, <<"S", "-">>)]
       ELSE [raised |-> TRUE, value |-> <<>>]

\* one iteration of iob_iobes's loop (lines 854-870): the tag appended for
\* position i (from 1), or the exception
IobIobesTag(tgs, i) ==
    LET v == tgs[i]
        first == Split(v)[1]
        nextI == i + 1 <= Len(tgs) /\ Split(tgs[i + 1])[1] = <<"I">>
    IN IF v = O THEN [raised |-> FALSE, value |-> v]
       ELSE IF first = <<"B">>
       THEN [raised |-> FALSE,
             value |-> IF nextI THEN v ELSE Replace(v, <<"B", "-">>, <<"S", "-">>)]
       ELSE IF first = <<"I">>
       THEN [raised |-> FALSE,
             value |-> IF nextI THEN v ELSE Replace(v, <<"I", "-">>, <<"E", "-">>)]
       ELSE [raised |-> TRUE, value |-> <<>>]

\* iob_iobes: new_tags, or the exception raised at the first invalid tag
IobIobesResult(tgs) ==
    IF \E i \in 1..Len(tgs) : IobIobesTag(tgs, i).raised
    THEN [raised |-> TRUE, value |-> <<>>]
    ELSE [raised |-> FALSE, value |-> [i \in 1..Len(tgs) |-> IobIobesTag(tgs, i).value]]

\* iob2(tags): mutates the Labels in place and returns a boolean; called on
\* the list as drawn, and once more on the list as the first call left it
iob2_call ==
    /\ tg_pc \in {"idle", "iob2"}
    /\ LET r == Iob2Result(tg_tags)
       IN /\ tg_tags' = r.tags
          /\ tg_ret' = [raised |-> FALSE, value |-> r.ok]
    /\ tg_pc' = IF tg_pc = "idle" THEN "iob2" ELSE "iob2_again"
    /\ UNCHANGED <<tg_in, dictVars, sentVars, gsVars, otVars>>

\* iob_iobes(tags), on tags as drawn or as iob2 left them: returns a new list
iob_iobes_call ==
    /\ tg_pc \in {"idle", "iob2"}
    /\ tg_ret' = IobIobesResult(tg_tags)
    /\ tg_pc' = "iob_iobes"
    /\ UNCHANGED <<tg_tags, tg_in, dictVars, sentVars, gsVars, otVars>>

\* tag values of the lists converted: IOB tags of two types, a type that
\* itself holds a prefix ('B-B-', 'I-I-'), and malformed values
ConvTagValues ==
    {O, <<>>, <<"B">>, TagOf("X", PER), TagOf("B", <<"B", "-">>), TagOf("I", <<"I", "-">>)}
    \cup {TagOf(p, x) : p \in {"B", "I"}, x \in {PER, LOC}}

InitTags ==
    /\ tg_tags \in SeqsUpTo(ConvTagValues, MaxLen)
    /\ tg_in = tg_tags
    /\ tg_pc = "idle"
    /\ tg_ret = None
    /\ SentIdle
    /\ DictIdle /\ GsIdle /\ OtIdle

NextTags == iob2_call \/ iob_iobes_call

SpecTags == InitTags /\ [][NextTags]_vars

\* ------------------------------------------------------ claims C3, C4
\* the list iob_iobes was called on holds only 'O', B-x and I-x tags
OnlyIobTags(tgs) ==
    \A i \in 1..Len(tgs) :
        tgs[i] = O \/ HasPrefix(tgs[i], "B") \/ HasPrefix(tgs[i], "I")

\* x holds the two characters p- nowhere
HoldsNo(x, p) == \A j \in 1..(Len(x) - 1) : ~(x[j] = p /\ x[j + 1] = "-")

\* the next tag is an I- tag (with, if sameType, the suffix of tag i)
NextContinues(tgs, i, sameType) ==
    /\ i < Len(tgs)
    /\ HasPrefix(tgs[i + 1], "I")
    /\ sameType => Suffix(tgs[i + 1]) = Suffix(tgs[i])

\* C3 as stated: 'O' stays; B-x stays if the next tag is I-x of the same x and
\* becomes S-x otherwise; I-x stays if the next tag is I-x of the same x and
\* becomes E-x otherwise.
C3_SameSuffixLookahead ==
    (tg_pc = "iob_iobes" /\ OnlyIobTags(tg_tags)) =>
        /\ ~tg_ret.raised
        /\ Len(tg_ret.value) = Len(tg_tags)
        /\ \A i \in 1..Len(tg_tags) :
              LET v == tg_tags[i]
                  out == tg_ret.value[i]
              IN IF v = O THEN out = O
                 ELSE IF NextContinues(tg_tags, i, TRUE) THEN out = v
                 ELSE IF HasPrefix(v, "B") THEN out = TagOf("S", Suffix(v))
                 ELSE out = TagOf("E", Suffix(v))

\* C3 amended: the look-ahead tests only the next tag's prefix I-, whatever
\* its suffix, and the rewrite replaces every 'B-' ('I-') of the tag by 'S-'
\* ('E-'), which gives S-x (E-x) when x holds no 'B-' ('I-').
C3_PrefixOnlyLookahead ==
    (tg_pc = "iob_iobes" /\ OnlyIobTags(tg_tags)) =>
        /\ ~tg_ret.raised
        /\ Len(tg_ret.value) = Len(tg_tags)
        /\ \A i \in 1..Len(tg_tags) :
              LET v == tg_tags[i]
                  out == tg_ret.value[i]
              IN IF v = O THEN out = O
                 ELSE IF NextContinues(tg_tags, i, FALSE) THEN out = v
                 ELSE IF HasPrefix(v, "B")
                 THEN /\ Len(out) = Len(v) /\ HasPrefix(out, "S")
                      /\ HoldsNo(out, "B")
                      /\ HoldsNo(Suffix(v), "B") => out = TagOf("S", Suffix(v))
                 ELSE /\ Len(out) = Len(v) /\ HasPrefix(out, "E")
                      /\ HoldsNo(out, "I")
                      /\ HoldsNo(Suffix(v), "I") => out = TagOf("E", Suffix(v))

\* [B-PER, I-LOC] converted: B-PER kept before an I- tag of another type
C3_Witness ==
    /\ tg_pc = "iob_iobes"
    /\ tg_tags = <<TagOf("B", PER), TagOf("I", LOC)>>
    /\ ~tg_ret.raised
    /\ tg_ret.value = <<TagOf("B", PER), TagOf("E", LOC)>>

\* a tag iob2 accepts: 'O', or exactly two parts around one '-', the first I or B
Iob2Accepts(v) ==
    \/ v = O
    \/ /\ Cardinality({j \in 1..Len(v) : v[j] = "-"}) = 1
       /\ HasPrefix(v, "I") \/ HasPrefix(v, "B")

\* C4: iob2 returns true exactly when every tag is 'O' or splits on '-' into
\* exactly two parts with prefix I or B; and when it returns true the tags
\* equal the input except that every I-x tag that is first, follows an 'O' or
\* follows a tag of another suffix has become B-x.
C4_Iob2Normalises ==
    tg_pc = "iob2" =>
        /\ tg_ret.value <=> \A i \in 1..Len(tg_in) : Iob2Accepts(tg_in[i])
        /\ tg_ret.value =>
              /\ Len(tg_tags) = Len(tg_in)
              /\ \A i \in 1..Len(tg_in) :
                    tg_tags[i] =
                        IF /\ HasPrefix(tg_in[i], "I")
                           /\ \/ i = 1
                              \/ tg_in[i - 1] = O
                              \/ Suffix(tg_in[i - 1]) # Suffix(tg_in[i])
                        THEN TagOf("B", Suffix(tg_in[i]))
                        ELSE tg_in[i]

\* [I-PER, I-PER] normalised to [B-PER, I-PER], true returned
C4_Witness ==
    /\ tg_pc = "iob2"
    /\ tg_in = <<TagOf("I", PER), TagOf("I", PER)>>
    /\ tg_tags = <<TagOf("B", PER), TagOf("I", PER)>>
    /\ tg_ret.value

\* ------------------------------------------- specification: Dictionary
InitDict ==
    /\ \E add_unk \in BOOLEAN : DictInit(add_unk)
    /\ SentIdle
    /\ GsIdle /\ OtIdle /\ TgIdle

NextDict ==
    \/ \E item \in ItemStrings : add_item(item)
    \/ \E item \in ItemStrings : get_idx_for_item(item)
    \/ \E i \in IndexArgs : get_item_for_index(i)

SpecDict == InitDict /\ [][NextDict]_vars

\* ------------------------------------------------ claims C5, C6, C7
\* idx2item and item2idx are mutually inverse, the ids being 0..length-1
MutuallyInverse ==
    /\ DOMAIN item2idx = {idx2item[k] : k \in 1..Len(idx2item)}
    /\ Cardinality(DOMAIN item2idx) = DictLen
    /\ {item2idx[b] : b \in DOMAIN item2idx} = 0..(DictLen - 1)
    /\ \A b \in DOMAIN item2idx : idx2item[item2idx[b] + 1] = b

\* get_item_for_index(add_item(s)) = s
AddThenLookup ==
    d_call.op = "add_item" =>
        GetItemForIndexResult(idx2item, d_call.ret) =
            [raised |-> FALSE, value |-> d_call.arg]

\* an id, once assigned, is kept
IdsKept ==
    \A b \in DOMAIN item2idx : b \in DOMAIN item2idx' /\ item2idx'[b] = item2idx[b]

\* C5: after construction and any calls of add_item, get_idx_for_item and
\* get_item_for_index, idx2item and item2idx are mutually inverse with ids
\* exactly 0..length-1, an id never changes, and
\* get_item_for_index(add_item(s)) = s.
C5_DictionaryBijection == [](MutuallyInverse /\ AddThenLookup) /\ [][IdsKept]_vars

\* a two-byte item was added after the sentinel and looks up as itself
C5_Witness ==
    /\ d_call.op = "add_item"
    /\ d_call.arg = <<233, 97>>
    /\ d_call.ret = 1
    /\ DictLen = 2
    /\ idx2item[1] = Encode(UnkItem)
    /\ GetItemForIndexResult(idx2item, 1).value = <<233, 97>>

\* C6: a second add_item of the same string returns the same id and leaves
\* idx2item, item2idx and the length as the first call left them.
C6_AddItemIdempotent ==
    [][(d_call.op = "add_item" /\ d_call'.op = "add_item" /\ d_call'.arg = d_call.arg) =>
          /\ d_call'.ret = d_call.ret
          /\ idx2item' = idx2item
          /\ item2idx' = item2idx
          /\ Len(idx2item') = DictLen
      ]_vars

\* add_item was called twice in a row with the same new string
C6_Witness ==
    /\ d_prev.op = "add_item" /\ d_call.op = "add_item"
    /\ d_prev.arg = <<97>> /\ d_call.arg = <<97>>
    /\ d_call.ret = d_prev.ret
    /\ DictLen = d_call.ret + 1

\* C7: get_item_for_index(i) fails for every i outside 0..length-1, negative
\* i included, and returns the item stored at id i otherwise.
C7_InvalidIdRaises ==
    d_call.op = "get_item_for_index" =>
        IF 0 <= d_call.arg /\ d_call.arg <= DictLen - 1
        THEN /\ ~d_call.ret.raised
             /\ d_call.ret.value = Decode(idx2item[d_call.arg + 1])
        ELSE d_call.ret.raised

\* --------------------------- specification: get_spans with scores varying
\* scores as passed to Label(value, score): some outside [0.0, 1.0]
RawScores == (0 - 1)..(ScoreScale + 1)
\* min_score as passed by the caller: the default -1 up to 1.0
MinScores == DefaultMinScore..ScoreScale

ScoredLabels ==
    {Some(Label(O, ScoreScale))}
    \cup {Some(Label(TagOf(p, PER), sc)) : p \in {"B", "I"}, sc \in RawScores}

InitScores ==
    /\ tokens \in {SentenceOf(ls) : ls \in SeqsUpTo(ScoredLabels, MaxScoredLen)}
    /\ s_call = NoCall /\ s_text = None
    /\ DictIdle /\ GsIdle /\ OtIdle /\ TgIdle

NextScores ==
    \/ \E ms \in MinScores : get_spans_call(ms)
    \/ get_spans_token
    \/ get_spans_return

SpecScores == InitScores /\ [][NextScores]_vars

\* ------------------------------------------------------------ claim C8
\* this step closes the non-empty pending span: a token that does not join
\* it, or the end of the sentence
ClosesPending ==
    /\ gs_pc = "loop"
    /\ current_span # <<>>
    /\ \/ gs_i' = gs_i + 1 /\ current_span' # Append(current_span, gs_i)
       \/ gs_pc' = "done"

\* the sum and the number of the pending span's tag confidences
PendingSum == SumScores(tokens, current_span)
PendingMeanAbove(ms) == PendingSum > ms * Len(current_span)

SpanMeanAbove(sp, ms) == sp.score.num > ms * sp.score.den
EmittedOf(all, ms) == LET Passes(sp) == SpanMeanAbove(sp, ms) IN SelectSeq(all, Passes)
SpanTokens(sps) == UNION {{sps[k].tokens[j] : j \in 1..Len(sps[k].tokens)} : k \in 1..Len(sps)}
PendingTokens == {current_span[j] : j \in 1..Len(current_span)}

\* C8: a closed non-empty pending span is emitted if and only if the mean of
\* its tokens' confidences is strictly greater than min_score (a mean equal
\* to min_score is dropped); a dropped span's tokens appear in no later span
\* (the spans returned are those of the default decoding whose mean passes);
\* with the default min_score every closed pending span is emitted.
C8_EmittedIffMeanAbove ==
    /\ [][ClosesPending =>
            /\ IF PendingMeanAbove(min_score)
               THEN /\ Len(spans') = Len(spans) + 1
                    /\ SubSeq(spans', 1, Len(spans)) = spans
                    /\ spans'[Len(spans')].tokens = current_span
                    /\ spans'[Len(spans')].score =
                          [num |-> PendingSum, den |-> Len(current_span)]
               ELSE /\ spans' = spans
                    /\ PendingTokens \cap SpanTokens(spans') = {}
            /\ gs_pc' = "loop" =>
                  PendingTokens \cap {current_span'[j] : j \in 1..Len(current_span')} = {}
            /\ PendingSum = min_score * Len(current_span) => spans' = spans
            /\ min_score = DefaultMinScore => Len(spans') = Len(spans) + 1
          ]_vars
    /\ [](gs_pc = "done" =>
            spans = EmittedOf(GetSpansResult(tokens, DefaultMinScore), min_score))

\* a span whose mean equals min_score was dropped, and the span after it,
\* whose mean is above, was emitted without the dropped tokens
C8_Witness ==
    /\ gs_pc = "done"
    /\ Len(tokens) = 3
    /\ min_score > 0
    /\ HasPrefix(RawTag(1), "B") /\ HasPrefix(RawTag(2), "I") /\ HasPrefix(RawTag(3), "B")
    /\ get_tag(tokens[1]).score + get_tag(tokens[2]).score = 2 * min_score
    /\ get_tag(tokens[1]).score # get_tag(tokens[2]).score
    /\ get_tag(tokens[3]).score > min_score
    /\ Len(spans) = 1
    /\ spans[1].tokens = <<3>>

\* =========================================== add_token, get_token
\* Sentence.add_token(token), outside any running call on the sentence
add_token(token) ==
    /\ ot_pc = "idle"
    /\ Len(tokens) < MaxTokens
    /\ tokens' = AddTokenResult(tokens, token)
    /\ s_call' = [op |-> "add_token", arg |-> token, ret |-> None]
    /\ UNCHANGED <<s_text, dictVars, gsVars, otVars, tgVars>>

\* Sentence.get_token(token_id): the first token whose idx is token_id (here
\* its position in the sentence), or None
GetTokenResult(toks, token_id) ==
    IF \E k \in 1..Len(toks) : toks[k].idx = Some(token_id)
    THEN Some(CHOOSE k \in 1..Len(toks) :
                 /\ toks[k].idx = Some(token_id)
                 /\ \A j \in 1..(k - 1) : toks[j].idx # Some(token_id))
    ELSE None

get_token(token_id) ==
    /\ ot_pc = "idle"
    /\ s_call' = [op |-> "get_token", arg |-> token_id,
                  ret |-> GetTokenResult(tokens, token_id)]
    /\ UNCHANGED <<s_text, tokens, dictVars, gsVars, otVars, tgVars>>

\* ===================================================== to_original_text
\* The while loop stops being followed once pos is past every start
\* position a token can have: from there start_pos != pos stays true.
OtPosCap == MaxStart + 1

\* Sentence.to_original_text, lines 548-549
to_original_text_call ==
    /\ ot_pc = "idle"
    /\ ot_pc' = "for"
    /\ ot_tokens' = tokens
    /\ ot_k' = 1
    /\ ot_pos' = Some(0)
    /\ ot_str' = <<>>
    /\ UNCHANGED <<dictVars, sentVars, gsVars, tgVars>>

\* Span(tokens[a..b]).to_original_text, lines 241-242: pos starts at the
\* first token's start_pos; tokens[0] of an empty list raises IndexError
span_to_original_text_call(a, b) ==
    /\ ot_pc = "idle"
    /\ ot_tokens' = SubSeq(tokens, a, b)
    /\ ot_str' = <<>>
    /\ IF a > b
       THEN ot_pc' = "raised" /\ ot_k' = 0 /\ ot_pos' = None
       ELSE ot_pc' = "for" /\ ot_k' = 1 /\ ot_pos' = tokens[a].start_pos
    /\ UNCHANGED <<dictVars, sentVars, gsVars, tgVars>>

\* one iteration of `while t.start_pos != pos` (lines 551-553, 244-246):
\* str += ' ', and pos += 1, which raises TypeError when pos is None
to_original_text_while ==
    /\ ot_pc = "for"
    /\ ot_k <= Len(ot_tokens)
    /\ ot_tokens[ot_k].start_pos # ot_pos
    /\ IF IsNone(ot_pos)
       THEN ot_pc' = "raised" /\ UNCHANGED <<ot_pos, ot_str>>
       ELSE /\ Val(ot_pos) < OtPosCap
            /\ ot_str' = Append(ot_str, " ")
            /\ ot_pos' = Some(Val(ot_pos) + 1)
            /\ UNCHANGED ot_pc
    /\ UNCHANGED <<ot_tokens, ot_k, dictVars, sentVars, gsVars, tgVars>>

\* the loop is left: str += t.text, pos += len(t.text) (lines 555-556,
\* 248-249), which raises TypeError when pos is None
to_original_text_append ==
    /\ ot_pc = "for"
    /\ ot_k <= Len(ot_tokens)
    /\ ot_tokens[ot_k].start_pos = ot_pos
    /\ IF IsNone(ot_pos)
       THEN ot_pc' = "raised" /\ UNCHANGED <<ot_pos, ot_str, ot_k>>
       ELSE /\ ot_str' = ot_str \o ot_tokens[ot_k].text
            /\ ot_pos' = Some(Val(ot_pos) + Len(ot_tokens[ot_k].text))
            /\ ot_k' = ot_k + 1
            /\ UNCHANGED ot_pc
    /\ UNCHANGED <<ot_tokens, dictVars, sentVars, gsVars, tgVars>>

\* return str
to_original_text_return ==
    /\ ot_pc = "for"
    /\ ot_k > Len(ot_tokens)
    /\ ot_pc' = "done"
    /\ UNCHANGED <<ot_tokens, ot_k, ot_pos, ot_str, dictVars, sentVars, gsVars, tgVars>>

\* ------------------------------------ specification: token numbering
OptInts(S) == {None} \cup {Some(n) : n \in S}
TokenTexts == {<<"a">>, <<"a", "b">>}

\* tokens as callers build them: idx pre-set or left unset
IdxTokens == {Token(tx, ix, None, None) : tx \in TokenTexts, ix \in OptInts(1..MaxTokens)}

InitIdx ==
    /\ SentIdle
    /\ DictIdle /\ GsIdle /\ OtIdle /\ TgIdle

NextIdx ==
    \/ \E token \in IdxTokens : add_token(token)
    \/ \E token_id \in 1..MaxTokens : get_token(token_id)

SpecIdx == InitIdx /\ [][NextIdx]_vars

\* --------------------------------- specification: to_original_text
\* tokens as callers build them: start_position given or not
TextTokens == {Token(tx, None, sp, None) : tx \in TokenTexts, sp \in OptInts(0..MaxStart)}

InitText ==
    /\ SentIdle
    /\ DictIdle /\ GsIdle /\ OtIdle /\ TgIdle

NextText ==
    \/ \E token \in TextTokens : add_token(token)
    \/ to_original_text_call
    \/ \E a \in 1..MaxTokens, b \in 0..MaxTokens :
          a <= Len(tokens) /\ b <= Len(tokens) /\ span_to_original_text_call(a, b)
    \/ to_original_text_while
    \/ to_original_text_append
    \/ to_original_text_return

SpecText == InitText /\ [][NextText]_vars

\* ----------------------------------------------------- claims C9, C10
\* C9: to_original_text terminates for every Sentence or Span built through
\* the constructors and add_token.  Each pass of `while t.start_pos != pos`
\* only raises pos by one, so the loop ends exactly when it is entered with a
\* start_pos that is a number not below pos (or with pos None, where the
\* call raises): the call terminates if and only if that holds at every
\* token.
C9_ToOriginalTextTerminates ==
    (ot_pc = "for" /\ ot_k <= Len(ot_tokens)) =>
        \/ IsNone(ot_pos)
        \/ /\ ~IsNone(ot_tokens[ot_k].start_pos)
           /\ Val(ot_pos) <= Val(ot_tokens[ot_k].start_pos)

\* C10: after any add_token calls, with idx pre-set or unset in any mix, the
\* tokens' idx values are pairwise distinct, and a token added with idx unset
\* has its 1-based position as idx.
C10_IdxDistinct ==
    /\ \A i, j \in 1..Len(tokens) : i # j => tokens[i].idx # tokens[j].idx
    /\ (s_call.op = "add_token" /\ IsNone(s_call.arg.idx)) =>
          tokens[Len(tokens)].idx = Some(Len(tokens))

\* ================================================= Label.score, add_tag
\* Token.add_tag(tag_type, tag_value, confidence) on token k: a new Label
\* replaces the one stored (Label.__init__ runs the score setter)
add_tag(k, tag_value, confidence) ==
    /\ k \in 1..Len(tokens)
    /\ tokens' = [tokens EXCEPT ![k].tag = Some(Label(tag_value, confidence))]
    /\ s_call' = [op |-> "add_tag", arg |-> [k |-> k, score |-> confidence], ret |-> None]
    /\ UNCHANGED <<s_text, dictVars, gsVars, otVars, tgVars>>

\* label.score = score on the Label stored on token k
score_set(k, score) ==
    /\ k \in 1..Len(tokens)
    /\ ~IsNone(tokens[k].tag)
    /\ tokens' = [tokens EXCEPT ![k].tag = Some([Val(@) EXCEPT !.score = LabelScore(score)])]
    /\ s_call' = [op |-> "score", arg |-> [k |-> k, score |-> score], ret |-> None]
    /\ UNCHANGED <<s_text, dictVars, gsVars, otVars, tgVars>>

\* ------------------------------------------ specification: Label scores
\* most tokens of the sentence whose labels are assigned
MaxLabelled == 2

InitLabel ==
    /\ tokens \in {SentenceOf(ls) : ls \in SeqsUpTo({None}, MaxLabelled)}
    /\ s_call = NoCall /\ s_text = None
    /\ DictIdle /\ GsIdle /\ OtIdle /\ TgIdle

NextLabel ==
    \/ \E k \in 1..MaxLabelled, v \in {O, TagOf("B", PER)}, c \in RawScores : add_tag(k, v, c)
    \/ \E k \in 1..MaxLabelled, c \in RawScores : score_set(k, c)

SpecLabel == InitLabel /\ [][NextLabel]_vars

\* ------------------------------------------------------------ claim C11
\* the score stored by the Label the last call constructed or assigned
LastStored == Val(tokens[s_call.arg.k].tag).score

\* C11: after construction and after any sequence of score assignments a
\* Label's stored score lies in [0.0, 1.0]; a score assigned inside the range,
\* bounds included, is stored unchanged, and one outside it is replaced by
\* 1.0, the call completing without an error.
C11_ScoreInRange ==
    /\ \A k \in 1..Len(tokens) :
          ~IsNone(tokens[k].tag) =>
             0 <= Val(tokens[k].tag).score /\ Val(tokens[k].tag).score <= ScoreScale
    /\ s_call.op \in {"add_tag", "score"} =>
          /\ (0 <= s_call.arg.score /\ s_call.arg.score <= ScoreScale)
                => LastStored = s_call.arg.score
          /\ (s_call.arg.score < 0 \/ s_call.arg.score > ScoreScale)
                => LastStored = ScoreScale

\* a score below the range is assigned to a Label holding 0.0: 1.0 is stored
C11_Witness ==
    /\ s_call.op = "score"
    /\ s_call.arg.score < 0
    /\ LastStored = ScoreScale
    /\ \E k \in 1..Len(tokens) : ~IsNone(tokens[k].tag) /\ Val(tokens[k].tag).score = 0

\* ============================== Sentence(text), to_plain_string
\* the characters str.rstrip() strips that the texts draw: the space and the
\* line feed
Whitespace == {" ", "\n"}

\* lines 331-346: the loop over the characters of text from the 1-based
\* position index on, word being the characters gathered since the last
\* space, and the flush of the last word
RECURSIVE WhitespaceSplit(_, _, _, _)
WhitespaceSplit(text, index, word, toks) ==
    LET flushed(end) ==
            IF Len(word) > 0
            THEN AddTokenResult(toks, Token(word, None, Some(end - Len(word)), None))
            ELSE toks
    IN IF index > Len(text) THEN flushed(Len(text))
       ELSE IF text[index] = " "
       THEN WhitespaceSplit(text, index + 1, <<>>, flushed(index - 1))
       ELSE WhitespaceSplit(text, index + 1, Append(word, text[index]), toks)

\* Sentence(text) without a tokenizer: ValueError for the empty text
SentenceResult(text) ==
    IF text = <<>> THEN [raised |-> TRUE, value |-> <<>>]
    ELSE [raised |-> FALSE, value |-> WhitespaceSplit(text, 1, <<>>, <<>>)]

\* str.rstrip()
RECURSIVE RStrip(_)
RStrip(str) ==
    IF str # <<>> /\ str[Len(str)] \in Whitespace
    THEN RStrip(SubSeq(str, 1, Len(str) - 1))
    ELSE str

\* lines 492-495: plain after the for loop
RECURSIVE PlainConcat(_)
PlainConcat(toks) ==
    IF toks = <<>> THEN <<>>
    ELSE PlainConcat(SubSeq(toks, 1, Len(toks) - 1))
         \o toks[Len(toks)].text
         \o (IF toks[Len(toks)].whitespace_after THEN <<" ">> ELSE <<>>)

\* Sentence.to_plain_string
ToPlainStringResult(toks) == RStrip(PlainConcat(toks))

Sentence(text) ==
    /\ IsNone(s_text) /\ tokens = <<>>
    /\ LET r == SentenceResult(text)
       IN /\ tokens' = r.value
          /\ s_call' = [op |-> "Sentence", arg |-> text, ret |-> r.raised]
    /\ s_text' = Some(text)
    /\ UNCHANGED <<dictVars, gsVars, otVars, tgVars>>

to_plain_string ==
    /\ s_call' = [op |-> "to_plain_string", arg |-> None,
                  ret |-> ToPlainStringResult(tokens)]
    /\ UNCHANGED <<tokens, s_text, dictVars, gsVars, otVars, tgVars>>

\* ------------------------------------ specification: plain-string round trip
\* longest text a Sentence is constructed from
MaxTextLen == 4
TextChars == {"a", "b"} \cup Whitespace

InitPlain ==
    /\ SentIdle
    /\ DictIdle /\ GsIdle /\ OtIdle /\ TgIdle

NextPlain ==
    \/ \E text \in SeqsUpTo(TextChars, MaxTextLen) : Sentence(text)
    \/ to_plain_string

SpecPlain == InitPlain /\ [][NextPlain]_vars

\* ------------------------------------------------------------ claim C12
\* text is non-empty, made of words separated by exactly one space, with no
\* leading or trailing space
SingleSpaced(text) ==
    /\ text # <<>>
    /\ text[1] # " " /\ text[Len(text)] # " "
    /\ \A i \in 1..(Len(text) - 1) : ~(text[i] = " " /\ text[i + 1] = " ")

\* each token's text is non-empty, holds no space and is the slice of text
\* between its start_pos and end_pos
TokensSliceText(text) ==
    \A k \in 1..Len(tokens) :
        /\ tokens[k].text # <<>>
        /\ \A i \in 1..Len(tokens[k].text) : tokens[k].text[i] # " "
        /\ tokens[k].text = SubSeq(text, Val(tokens[k].start_pos) + 1, Val(tokens[k].end_pos))

\* C12: for every non-empty text of words separated by exactly one space,
\* with no leading or trailing space, the Sentence constructed from it in
\* whitespace-split mode gives the text back from to_plain_string, and each
\* token's text is non-empty, free of spaces and equal to
\* text[start_pos:end_pos].
C12_PlainStringRoundTrip ==
    (~IsNone(s_text) /\ SingleSpaced(Val(s_text))) =>
        /\ TokensSliceText(Val(s_text))
        /\ s_call.op = "to_plain_string" => s_call.ret = Val(s_text)

\* ------------------------- specification: get_spans on any sentence
\* longest sentence drawn with any tags
MaxAnyLen == 3

\* the labels of the sentences decoded: the tag values of SpanTagValues and
\* 'O-P' with score 1.0, two labels of score 0.0, or no tag
AnyLabels ==
    SpanLabels
    \cup {Some(Label(TagOf("O", PER), ScoreScale)),
          Some(Label(TagOf("B", PER), 0)), Some(Label(TagOf("I", LOC), 0))}

InitAny ==
    /\ tokens \in {SentenceOf(ls) : ls \in SeqsUpTo(AnyLabels, MaxAnyLen)}
    /\ s_call = NoCall /\ s_text = None
    /\ DictIdle /\ GsIdle /\ OtIdle /\ TgIdle

NextAny ==
    \/ get_spans_call(DefaultMinScore)
    \/ get_spans_token
    \/ get_spans_return

SpecAny == InitAny /\ [][NextAny]_vars

\* ------------------------------------------------------------ claim C13
\* the tokens whose tag is present, non-empty, not 'O' and not prefixed 'O-'
Tagged ==
    {i \in 1..Len(tokens) :
        /\ ~IsNone(tokens[i].tag)
        /\ RawTag(i) # <<>>
        /\ RawTag(i) # O
        /\ ~HasPrefix(RawTag(i), "O")}

\* the token positions of span k, as a set
SpanSet(k) == {spans[k].tokens[j] : j \in 1..Len(spans[k].tokens)}

\* the spans returned are non-empty runs of consecutive tokens, disjoint and
\* in sentence order, and cover exactly the tagged tokens
SpansPartitionTagged ==
    /\ \A k \in 1..Len(spans) :
          LET t == spans[k].tokens
          IN /\ t # <<>>
             /\ t[1] \in 1..Len(tokens)
             /\ t = Range(t[1], t[1] + Len(t) - 1)
             /\ t[Len(t)] <= Len(tokens)
    /\ \A k \in 1..(Len(spans) - 1) :
          spans[k].tokens[Len(spans[k].tokens)] < spans[k + 1].tokens[1]
    /\ \A j, k \in 1..Len(spans) : j # k => SpanSet(j) \cap SpanSet(k) = {}
    /\ UNION {SpanSet(k) : k \in 1..Len(spans)} = Tagged

\* C13: get_spans with the default min_score returns spans that are pairwise
\* disjoint, in sentence order, each a non-empty run of consecutive tokens,
\* and whose union is exactly the tokens whose tag is present, non-empty, not
\* 'O' and not prefixed 'O-' (so none for an empty sentence or one with no
\* such token); no step of the call changes a token, tag or label.
C13_SpansPartitionTagged ==
    /\ []((gs_pc = "done" /\ min_score = DefaultMinScore) => SpansPartitionTagged)
    /\ [][gs_pc # "idle" => tokens' = tokens]_vars

\* a sentence of three tokens tagged 'P' (score 1.0), 'O-P' and I-L with
\* score 0.0 has been decoded
C13_Witness ==
    /\ gs_pc = "done"
    /\ Len(tokens) = 3
    /\ RawTag(1) = PER /\ RawTag(2) = TagOf("O", PER)
    /\ tokens[3].tag = Some(Label(TagOf("I", LOC), 0))
    /\ Len(spans) = 2
    /\ spans[1].tokens = <<1>> /\ spans[2].tokens = <<3>>

\* ------------------------------------------------------------ claim C14
\* the tag value the loop reads at token i, and the one it read before it
ReadTag(i) == TagValue(tokens[i])
ReadBefore(i) == IF i = 1 THEN O ELSE ReadTag(i - 1)

\* the vote weight, in tenths, of the j-th token of the span over positions t
VoteWeight(t, j) ==
    IF j = 1 /\ BoundaryRule(ReadBefore(t[1]), ReadTag(t[1])) THEN 11 ELSE 10

\* the total vote weight of suffix x over the first n tokens of the span
RECURSIVE TotalWeight(_, _, _)
TotalWeight(t, x, n) ==
    IF n = 0 THEN 0
    ELSE TotalWeight(t, x, n - 1)
         + (IF Suffix(ReadTag(t[n])) = x THEN VoteWeight(t, n) ELSE 0)

\* where suffix x first occurs in the span
FirstAt(t, x) == CHOOSE j \in 1..Len(t) :
                    /\ Suffix(ReadTag(t[j])) = x
                    /\ \A i \in 1..(j - 1) : Suffix(ReadTag(t[i])) # x

\* x has the greatest total weight in the span, and occurs before every other
\* suffix of the same weight
WinsVote(t, x) ==
    /\ \E j \in 1..Len(t) : Suffix(ReadTag(t[j])) = x
    /\ \A j \in 1..Len(t) :
          LET y == Suffix(ReadTag(t[j]))
          IN \/ y = x
             \/ TotalWeight(t, y, Len(t)) < TotalWeight(t, x, Len(t))
             \/ /\ TotalWeight(t, y, Len(t)) = TotalWeight(t, x, Len(t))
                /\ FirstAt(t, x) < FirstAt(t, y)

\* C14: the type of every span get_spans emits is the suffix with the
\* greatest total vote weight among the span's tokens, the first token
\* counting 1.1 if it triggered starts_new_span and every other token 1.0;
\* of two suffixes with the same total the one occurring first in the span
\* wins.
C14_TypeByWeightedVote ==
    gs_pc = "done" =>
        \A k \in 1..Len(spans) : WinsVote(spans[k].tokens, spans[k].tag)

\* the claim's third example: in [O, I-PER, I-LOC] the first token of the
\* span did not trigger starts_new_span, the two suffixes tie at 1.0 and PER,
\* the first, wins
C14_Witness ==
    /\ gs_pc = "done" /\ Len(tokens) = 3 /\ Len(spans) = 1
    /\ [i \in 1..3 |-> RawTag(i)] = <<O, TagOf("I", PER), TagOf("I", LOC)>>
    /\ spans[1].tokens = <<2, 3>> /\ spans[1].tag = PER
    /\ TotalWeight(<<2, 3>>, PER, 2) = 10
    /\ TotalWeight(<<2, 3>>, LOC, 2) = 10

\* ================================================= convert_tag_scheme
\* Sentence.convert_tag_scheme(tag_type, 'iobes') on the tokens toks: iob2
\* rewrites in place the Labels the tokens hold (its result is ignored; the
\* Label get_tag makes for a token without a tag is not stored), iob_iobes
\* builds the new values or raises, and add_tag stores each new value in a
\* new Label of score 1.0
ConvertTagSchemeResult(toks) ==
    LET r2 == Iob2Result([i \in 1..Len(toks) |-> get_tag(toks[i]).value])
        after2 == [i \in 1..Len(toks) |->
                     IF IsNone(toks[i].tag) THEN toks[i]
                     ELSE [toks[i] EXCEPT !.tag = Some([Val(@) EXCEPT !.value = r2.tags[i]])]]
        rs == IobIobesResult(r2.tags)
    IN IF rs.raised THEN [raised |-> TRUE, value |-> after2]
       ELSE [raised |-> FALSE,
             value |-> [i \in 1..Len(toks) |->
                          [after2[i] EXCEPT !.tag = Some(Label(rs.value[i], ScoreScale))]]]

\* the call, made once and outside a running get_spans; s_call keeps the
\* tokens as they were before it
convert_tag_scheme ==
    /\ gs_pc = "idle"
    /\ s_call.op = "none"
    /\ LET r == ConvertTagSchemeResult(tokens)
       IN /\ tokens' = r.value
          /\ s_call' = [op |-> "convert_tag_scheme", arg |-> tokens, ret |-> r.raised]
    /\ UNCHANGED <<s_text, dictVars, gsVars, otVars, tgVars>>

\* --------------------- specification: convert_tag_scheme, then get_spans
\* the labels of the sentences converted: IOB tags of two types, a type that
\* itself holds a prefix ('B-B-'), or no tag
ConvLabels ==
    {Some(Label(v, ScoreScale)) :
        v \in {O, TagOf("B", <<"B", "-">>)}
              \cup {TagOf(p, x) : p \in {"B", "I"}, x \in {PER, LOC}}}
    \cup {None}

InitConv ==
    /\ tokens \in {SentenceOf(ls) : ls \in SeqsUpTo(ConvLabels, MaxLen)}
    /\ s_call = NoCall /\ s_text = None
    /\ DictIdle /\ GsIdle /\ OtIdle /\ TgIdle

NextConv ==
    \/ convert_tag_scheme
    \/ get_spans_call(DefaultMinScore)
    \/ get_spans_token
    \/ get_spans_return

SpecConv == InitConv /\ [][NextConv]_vars

\* ------------------------------------------------------------ claim C15
\* the tokens toks carry a well-formed IOB2 sequence: every tag is one iob2
\* accepts, and every I-x tag follows a B-x or I-x tag of the same x
WellFormedTags(toks) ==
    \A i \in 1..Len(toks) :
        /\ ~IsNone(toks[i].tag)
        /\ Iob2Accepts(get_tag(toks[i]).value)
        /\ HasPrefix(get_tag(toks[i]).value, "I") =>
              /\ i > 1
              /\ \/ HasPrefix(get_tag(toks[i - 1]).value, "B")
                 \/ HasPrefix(get_tag(toks[i - 1]).value, "I")
              /\ Suffix(get_tag(toks[i - 1]).value) = Suffix(get_tag(toks[i]).value)

\* the token positions and the type of each span of a list
PositionsAndTypes(sps) == [k \in 1..Len(sps) |-> [tokens |-> sps[k].tokens, tag |-> sps[k].tag]]

SecondIob2Call == tg_pc = "iob2" /\ tg_pc' = "iob2_again"

\* every I-x tag of tgs directly follows a B-x or I-x tag of the same x
EveryIContinues(tgs) ==
    \A i \in 1..Len(tgs) :
        HasPrefix(tgs[i], "I") =>
            /\ i > 1
            /\ HasPrefix(tgs[i - 1], "B") \/ HasPrefix(tgs[i - 1], "I")
            /\ Suffix(tgs[i - 1]) = Suffix(tgs[i])

\* C16: iob2 is idempotent, and its successful output is valid IOB2: for
\* every tag list a second call of iob2 returns the boolean the first call
\* returned and changes no tag, and whenever iob2 has returned true every I-x
\* tag of the list directly follows a B-x or I-x tag with the same suffix x.
C16_Iob2Idempotent ==
    /\ [][SecondIob2Call => (tg_ret' = tg_ret /\ tg_tags' = tg_tags)]_vars
    /\ []((tg_pc \in {"iob2", "iob2_again"} /\ tg_ret.value) => EveryIContinues(tg_tags))

\* iob2 was called twice on [I-PER, I-LOC, I-LOC]: the first call left
\* [B-PER, B-LOC, I-LOC] and returned true, and so did the second
C16_Witness ==
    /\ tg_pc = "iob2_again"
    /\ tg_in = <<TagOf("I", PER), TagOf("I", LOC), TagOf("I", LOC)>>
    /\ tg_tags = <<TagOf("B", PER), TagOf("B", LOC), TagOf("I", LOC)>>
    /\ tg_ret.value

====
